---- MODULE Spec2Model ----
(***************************************************************************)
(* A model of glove.py: the GloVe class (construction, fit, forward) and   *)
(* the window helpers _context_windows and _window.                        *)
(*                                                                         *)
(* Python values are modelled as follows.                                  *)
(*   - a list is a sequence; list index k (0-based) is sequence index k+1; *)
(*   - None / "attribute not set" is the empty tuple <<>>, a value v that  *)
(*     is present is the 1-tuple <<v>>;                                    *)
(*   - a dict is a function on the set of its keys; a Counter, whose       *)
(*     insertion order decides ties in most_common, is a sequence of       *)
(*     <<word, count>> pairs in insertion order;                           *)
(*   - a Python float (IEEE 754 binary64) that holds a co-occurrence       *)
(*     weight is a record [e, hi, lo] of value (hi * 2^27 + lo) * 2^e with *)
(*     a 53-bit significand, and + and / round to nearest, ties to even.   *)
(***************************************************************************)
EXTENDS Integers, Sequences, FiniteSets, TLC

VARIABLES model, call

vars == <<model, call>>

(***************************************************************************)
(* Bounds of the model.                                                    *)
(***************************************************************************)
\* window sizes are drawn from 0..MaxWindow
MaxWindow == 2
\* a region passed to _context_windows has at most MaxLen tokens
MaxLen == 3
\* a corpus has at most MaxRegions regions
MaxRegions == 2
\* a corpus passed to fit has at most MaxFitTokens tokens in all
MaxFitTokens == 2
\* a corpus whose scan is examined has at most MaxScanTokens tokens in all
MaxScanTokens == 4

\* the two regions whose scans are merged have at most MaxMergeTokens tokens in
\* all, and windows of at most MaxMergeWindow
MaxMergeTokens == 6
MaxMergeWindow == 3

\* a word of the Counter given to the vocabulary has a count of at most MaxCount
MaxCount == 5
\* a batch given to forward has at most MaxBatch co-occurrence counts
MaxBatch == 2

Tokens == {"a", "b"}
ScanTokens == {"x", "y"}
VocabTokens == {"a", "b", "c"}

Min(a, b) == IF a <= b THEN a ELSE b
Max(a, b) == IF a >= b THEN a ELSE b

(***************************************************************************)
(* Python floats: the weights 1 / (i + 1) and their running sums           *)
(* (glove.py lines 49, 55, 57).                                            *)
(***************************************************************************)
LoBase == 2^27
HiBase == 2^26
HiMin == 2^25

\* defaultdict(float)'s default value, 0.0
FloatZero == [e |-> 0, hi |-> 0, lo |-> 0]

\* One bit of right shift of a significand, keeping the round bit r (the last
\* bit shifted out) and the sticky bit st (whether any earlier one was set).
ShiftRight1(s) ==
    [e  |-> s.e + 1,
     hi |-> s.hi \div 2,
     lo |-> (s.lo \div 2) + (s.hi % 2) * (LoBase \div 2),
     r  |-> s.lo % 2,
     st |-> IF s.st = 1 \/ s.r = 1 THEN 1 ELSE 0]

RECURSIVE ShiftRight(_, _)
ShiftRight(s, n) == IF n = 0 THEN s ELSE ShiftRight(ShiftRight1(s), n - 1)

\* Round to nearest, ties to even, and renormalise to 53 bits.
RoundNearestEven(s) ==
    LET up  == s.r = 1 /\ (s.st = 1 \/ s.lo % 2 = 1)
        lo1 == IF up THEN s.lo + 1 ELSE s.lo
        lo2 == lo1 % LoBase
        hi2 == s.hi + (lo1 \div LoBase)
    IN  IF hi2 = HiBase
        THEN [e |-> s.e + 1, hi |-> HiMin, lo |-> 0]
        ELSE [e |-> s.e, hi |-> hi2, lo |-> lo2]

\* x + y for floats x, y >= 0
FloatAdd(x, y) ==
    IF x = FloatZero THEN y
    ELSE IF y = FloatZero THEN x
    ELSE
      LET big   == IF x.e >= y.e THEN x ELSE y
          small == IF x.e >= y.e THEN y ELSE x
          d     == big.e - small.e
      IN  IF d > 55 THEN big
          ELSE
            LET sh  == ShiftRight([e |-> small.e, hi |-> small.hi, lo |-> small.lo,
                                   r |-> 0, st |-> 0], d)
                lo0 == big.lo + sh.lo
                s1  == [e |-> big.e,
                        hi |-> big.hi + sh.hi + (lo0 \div LoBase),
                        lo |-> lo0 % LoBase,
                        r |-> sh.r, st |-> sh.st]
                s2  == IF s1.hi >= HiBase THEN ShiftRight1(s1) ELSE s1
            IN  RoundNearestEven(s2)

\* The next n quotient bits of rem / k (rem < k), as <<bits, remainder>>.
RECURSIVE QuotientBits(_, _, _)
QuotientBits(rem, k, n) ==
    IF n = 0 THEN <<0, rem>>
    ELSE LET b    == IF 2 * rem >= k THEN 1 ELSE 0
             rest == QuotientBits(2 * rem - b * k, k, n - 1)
         IN  <<b * 2^(n - 1) + rest[1], rest[2]>>

\* The least s with 2^s >= k
RECURSIVE CeilLog2(_)
CeilLog2(k) == IF k <= 1 THEN 0 ELSE 1 + CeilLog2((k + 1) \div 2)

\* 1 / k for an int k >= 1 (Python 3 true division, correctly rounded)
Divide1By(k) ==
    LET s0   == CeilLog2(k)
        hiq  == QuotientBits(2^s0 - k, k, 25)
        loq  == QuotientBits(hiq[2], k, 27)
        rq   == QuotientBits(loq[2], k, 1)
    IN  RoundNearestEven([e |-> 0 - s0 - 52, hi |-> HiMin + hiq[1], lo |-> loq[1],
                          r |-> rq[1], st |-> IF rq[2] = 0 THEN 0 ELSE 1])

\* The weights 1 / (i + 1) of lines 55 and 57, tabulated: a context has at most
\* as many tokens as the window is wide
Reciprocals == [k \in 1..(Max(MaxWindow, MaxMergeWindow) + 2) |-> Divide1By(k)]
FloatRecip(k) == Reciprocals[k]

(***************************************************************************)
(* Python sequences.                                                       *)
(***************************************************************************)
\* seq[start:stop] for a list: a negative index counts from the end, and both
\* are clipped to 0..len(seq)
PySlice(seq, start, stop) ==
    LET n    == Len(seq)
        clip(k) == IF k < 0 THEN Max(k + n, 0) ELSE Min(k, n)
    IN  SubSeq(seq, clip(start) + 1, clip(stop))

\* seq[::-1]
Reversed(seq) == [k \in 1..Len(seq) |-> seq[Len(seq) + 1 - k]]

(***************************************************************************)
(* _window and _context_windows (glove.py lines 94-124).                   *)
(***************************************************************************)
\* A slip: the end of the slice taken as exclusive
_window_EndExclusive(region, start_index, end_index) ==
    LET last_index == Len(region) + 1
    IN  PySlice(region, Max(start_index, 0), Min(end_index, last_index))

_window(region, start_index, end_index) ==
    LET last_index == Len(region) + 1
    IN  PySlice(region, Max(start_index, 0), Min(end_index, last_index) + 1)

\* The triples the generator yields, in the order it yields them; i is the
\* 0-based index of enumerate(region).
_context_windows(region, left_size, right_size) ==
    [k \in 1..Len(region) |->
        LET i             == k - 1
            start_index   == i - left_size
            end_index     == i + right_size
            left_context  == _window(region, start_index, i - 1)
            right_context == _window(region, i + 1, end_index)
        IN  <<left_context, region[k], right_context>>]

(***************************************************************************)
(* The corpus scan of fit (glove.py lines 48-57).                          *)
(***************************************************************************)
\* A slip: = for +=
AddWeight_Assign(counts, key, weight) ==
    [k \in DOMAIN counts \cup {key} |-> IF k = key THEN weight ELSE counts[k]]

\* cooccurence_counts[key] += weight on a defaultdict(float)
AddWeight(counts, key, weight) ==
    LET old == IF key \in DOMAIN counts THEN counts[key] ELSE FloatZero
    IN  [k \in DOMAIN counts \cup {key} |->
            IF k = key THEN FloatAdd(old, weight) ELSE counts[k]]

\* for i, context_word in enumerate(context): counts[(word, context_word)] += 1 / (i + 1)
\* from 0-based index i on
RECURSIVE AddContext(_, _, _, _)
AddContext(counts, word, context, i) ==
    IF i >= Len(context) THEN counts
    ELSE AddContext(AddWeight(counts, <<word, context[i + 1]>>, FloatRecip(i + 1)),
                    word, context, i + 1)

\* A slip: the left context enumerated from its far end
AddTriple_LeftNotReversed(counts, left_context, word, right_context) ==
    AddContext(AddContext(counts, word, left_context, 0), word, right_context, 0)

\* enumerate(left_context[::-1]) and enumerate(right_context) of one triple
\* (lines 53-57)
AddTriple(counts, left_context, word, right_context) ==
    AddContext(AddContext(counts, word, Reversed(left_context), 0), word, right_context, 0)

\* The body of the loop over _context_windows(region, ...), from triple k on
RECURSIVE AddWindows(_, _, _)
AddWindows(counts, windows, k) ==
    IF k > Len(windows) THEN counts
    ELSE AddWindows(AddTriple(counts, windows[k][1], windows[k][2], windows[k][3]),
                    windows, k + 1)

\* Counter.update(region): one more occurrence of each token, a new token
\* appended in first-encounter order
RECURSIVE CounterUpdate(_, _)
CounterUpdate(word_counts, region) ==
    IF region = <<>> THEN word_counts
    ELSE LET w    == Head(region)
             seen == \E k \in 1..Len(word_counts) : word_counts[k][1] = w
             next == IF seen
                     THEN [k \in 1..Len(word_counts) |->
                             IF word_counts[k][1] = w
                             THEN <<w, word_counts[k][2] + 1>>
                             ELSE word_counts[k]]
                     ELSE Append(word_counts, <<w, 1>>)
         IN  CounterUpdate(next, Tail(region))

\* One iteration of "for region in corpus" on the accumulators
ScanRegion(acc, region, left_size, right_size) ==
    [word_counts       |-> CounterUpdate(acc.word_counts, region),
     cooccurence_counts |-> AddWindows(acc.cooccurence_counts,
                                       _context_windows(region, left_size, right_size), 1)]

\* word_counts = Counter(); cooccurence_counts = defaultdict(float)
EmptyCounts == [word_counts |-> <<>>, cooccurence_counts |-> <<>>]

RECURSIVE ScanFrom(_, _, _, _)
ScanFrom(acc, corpus, left_size, right_size) ==
    IF corpus = <<>> THEN acc
    ELSE ScanFrom(ScanRegion(acc, Head(corpus), left_size, right_size),
                  Tail(corpus), left_size, right_size)

ScanCorpus(corpus, left_size, right_size) ==
    ScanFrom(EmptyCounts, corpus, left_size, right_size)

(***************************************************************************)
(* The vocabulary and the matrix of fit (glove.py lines 58-70).            *)
(***************************************************************************)
\* A slip: an unstable sort, an item placed before the items of its own count
InsertByCount_TiesReversed(sorted, item) ==
    LET before == Cardinality({k \in 1..Len(sorted) : sorted[k][2] > item[2]})
    IN  SubSeq(sorted, 1, before) \o <<item>> \o SubSeq(sorted, before + 1, Len(sorted))

\* sorted(..., key=count, reverse=True) is stable: an item goes after every
\* item already placed whose count is at least its own
InsertByCount(sorted, item) ==
    LET before == Cardinality({k \in 1..Len(sorted) : sorted[k][2] >= item[2]})
    IN  SubSeq(sorted, 1, before) \o <<item>> \o SubSeq(sorted, before + 1, Len(sorted))

RECURSIVE SortByCount(_, _)
SortByCount(sorted, items) ==
    IF items = <<>> THEN sorted
    ELSE SortByCount(InsertByCount(sorted, Head(items)), Tail(items))

\* Counter.most_common(n): the n most common (word, count) items, most common
\* first, equal counts in first-encounter order; nothing for n <= 0
most_common(word_counts, n) ==
    IF n <= 0 THEN <<>>
    ELSE SubSeq(SortByCount(<<>>, word_counts), 1, Min(n, Len(word_counts)))

\* [word for word, count in items if count >= min_occurrances]
RECURSIVE WordsWithCount(_, _)
WordsWithCount(items, min_occurrances) ==
    IF items = <<>> THEN <<>>
    ELSE IF Head(items)[2] >= min_occurrances
         THEN <<Head(items)[1]>> \o WordsWithCount(Tail(items), min_occurrances)
         ELSE WordsWithCount(Tail(items), min_occurrances)

\* self.__words (line 63)
Words(word_counts, vocab_size, min_occurrances) ==
    WordsWithCount(most_common(word_counts, vocab_size), min_occurrances)

\* self.__word_to_id = {word: i for i, word in enumerate(self.__words)} (line 65)
WordToId(words) ==
    [w \in {words[k] : k \in 1..Len(words)} |->
        (CHOOSE k \in 1..Len(words) :
            /\ words[k] = w
            /\ \A j \in (k + 1)..Len(words) : words[j] # w) - 1]

\* A subscript key of self.__word_to_id: a token (a str) or a tuple of tokens
StrKey(word) == [type |-> "str", value |-> word]
TupleKey(words) == [type |-> "tuple", value |-> words]

\* key in word_to_id: the keys of word_to_id are tokens, and a tuple is equal
\* to no token
HasKey(word_to_id, key) == key.type = "str" /\ key.value \in DOMAIN word_to_id

\* The keys of the two subscripts of line 67: self.__word_to_id[words[0]] and
\* self.__word_to_id[words], the second one the (word, context_word) tuple
FocalKey(words) == StrKey(words[1])
ContextKey(words) == TupleKey(words)

\* The items of cooccurence_counts that pass the filter of line 69
InVocabulary(counts, word_to_id) ==
    {words \in DOMAIN counts :
        HasKey(word_to_id, StrKey(words[1])) /\ HasKey(word_to_id, StrKey(words[2]))}

\* The dict comprehension of lines 66-70: <<"KeyError">> when a subscript of
\* word_to_id misses, else <<"ok", matrix>>
BuildMatrix(counts, word_to_id) ==
    LET kept    == InVocabulary(counts, word_to_id)
        ids(words) == <<word_to_id[FocalKey(words).value], word_to_id[ContextKey(words).value]>>
    IN  IF \E words \in kept : ~HasKey(word_to_id, FocalKey(words))
                               \/ ~HasKey(word_to_id, ContextKey(words))
        THEN <<"KeyError">>
        ELSE <<"ok", [id \in {ids(words) : words \in kept} |->
                         counts[CHOOSE words \in kept : ids(words) = id]]>>

(***************************************************************************)
(* The GloVe object.  model is <<>> while no object is built, else <<m>>   *)
(* with m the record of the attributes.                                    *)
(***************************************************************************)
\* The defaults of __init__ (line 9); alpha = 3 / 4 is the fraction <<3, 4>>
XMaxDefault == 100
AlphaDefault == <<3, 4>>

IntArg(n) == [type |-> "int", value |-> <<n>>]
TupleArg(t) == [type |-> "tuple", value |-> t]
OtherArg(type) == [type |-> type, value |-> <<>>]

\* __init__ (lines 9-29): <<"ValueError">> or <<"ok", m>>
NewGloVe(context_size, vocab_size, min_occurrances, x_max, alpha) ==
    LET isTuple  == context_size.type = "tuple"
        isInt    == context_size.type = "int"
        \* line 14: unpacking a tuple that has not two elements raises ValueError
        unpackOk == isTuple => Len(context_size.value) = 2
    IN  IF ~unpackOk THEN <<"ValueError">>
        ELSE IF isInt
        THEN <<"ok", [left_context |-> context_size.value[1],
                      right_context |-> context_size.value[1],
                      vocab_size |-> vocab_size,
                      min_occurrances |-> min_occurrances,
                      alpha |-> alpha,
                      x_max |-> x_max,
                      words |-> <<>>,
                      word_to_id |-> <<>>,
                      coocurrence_matrix |-> <<>>]>>
        \* lines 15-19: the else of "if isinstance(context_size, int)"
        ELSE <<"ValueError">>

\* A slip: the test of line 58 on the word counts
NoCooccurrences_OfWords(scan) == Len(scan.word_counts) = 0

\* len(cooccurence_counts) == 0 (line 58)
NoCooccurrences(scan) == Cardinality(DOMAIN scan.cooccurence_counts) = 0

\* fit (lines 44-70) on the regions the corpus yields: what it raises, the
\* object it leaves, and its two accumulators
FitResult(m, regions) ==
    LET scan   == ScanCorpus(regions, m.left_context, m.right_context)
        counts == scan.cooccurence_counts
        words  == Words(scan.word_counts, m.vocab_size, m.min_occurrances)
        ids    == WordToId(words)
        matrix == BuildMatrix(counts, ids)
        named  == [m EXCEPT !.words = <<words>>, !.word_to_id = <<ids>>]
    IN  IF NoCooccurrences(scan)
        THEN [raised |-> "ValueError", after |-> m, scan |-> scan]
        ELSE IF matrix[1] = "KeyError"
        THEN [raised |-> "KeyError", after |-> named, scan |-> scan]
        ELSE [raised |-> "none",
              after |-> [named EXCEPT !.coocurrence_matrix = <<matrix[2]>>],
              scan |-> scan]

(***************************************************************************)
(* forward (glove.py lines 72-91).  The embeddings and biases are          *)
(* parameters that hold finite values; a count is an integer-valued float; *)
(* alpha is a fraction <<p, q>>, q >= 1, in lowest terms.  A weight factor *)
(* is nan, inf, or sign * (num / den) ^ (1 / root); the loss is known by   *)
(* its class: "finite", "inf" or "nan".                                    *)
(***************************************************************************)
NanValue == [kind |-> "nan", sign |-> 0, num |-> 0, den |-> 1, root |-> 1]
InfValue == [kind |-> "inf", sign |-> 1, num |-> 1, den |-> 1, root |-> 1]
Number(sign, num, den, root) ==
    [kind |-> "num", sign |-> sign, num |-> num, den |-> den, root |-> root]
OneValue == Number(1, 1, 1, 1)
ZeroValue == Number(0, 0, 1, 1)

Abs(n) == IF n < 0 THEN 0 - n ELSE n

\* torch.pow(coocurrence_count / x_max, alpha) for one count, x_max > 0 (line 81)
TorchPow(count, x_max, alpha) ==
    LET p == alpha[1]
        q == alpha[2]
        magnitude(sign) ==
            IF p >= 0 THEN Number(sign, Abs(count)^p, x_max^p, q)
            ELSE Number(sign, x_max^(0 - p), Abs(count)^(0 - p), q)
    IN  IF p = 0 THEN OneValue
        ELSE IF count > 0 THEN magnitude(1)
        ELSE IF count = 0 THEN (IF p > 0 THEN ZeroValue ELSE InfValue)
        ELSE IF q = 1 THEN magnitude(IF p % 2 = 0 THEN 1 ELSE -1)
        ELSE NanValue

\* weight_factor > 1; nan > 1 is False
GreaterThanOne(w) ==
    \/ w.kind = "inf"
    \/ w.kind = "num" /\ w.sign = 1 /\ w.num > w.den

\* A slip: no clamp
ClampAtOne_Missing(w) == w

\* weight_factor[weight_factor > 1] = 1 (line 82)
ClampAtOne(w) == IF GreaterThanOne(w) THEN OneValue ELSE w

\* The class of torch.log(coocurrence_count) (line 85)
TorchLog(count) ==
    IF count > 0 THEN "finite" ELSE IF count = 0 THEN "-inf" ELSE "nan"

\* The class of (embedding_products + focal_bias + context_bias + log) ** 2 (line 87)
DistanceExpr(log) ==
    IF log = "finite" THEN "finite" ELSE IF log = "-inf" THEN "inf" ELSE "nan"

\* The class of weight_factor * distance_expr (line 89); 0 * inf is nan
SingleLoss(w, distance) ==
    IF w.kind = "nan" \/ distance = "nan" THEN "nan"
    ELSE IF distance = "inf" THEN (IF w.kind = "num" /\ w.sign = 0 THEN "nan" ELSE "inf")
    ELSE IF w.kind = "inf" THEN "inf"
    ELSE "finite"

\* The class of torch.sum(single_losses) (line 90)
TotalLoss(single_losses) ==
    IF \E k \in 1..Len(single_losses) : single_losses[k] = "nan" THEN "nan"
    ELSE IF \E k \in 1..Len(single_losses) : single_losses[k] = "inf" THEN "inf"
    ELSE "finite"

\* forward(focal_input, context_input, coocurrence_count): no statement of it
\* raises on a count
ForwardResult(m, coocurrence_count) ==
    LET weight_factor ==
            [k \in 1..Len(coocurrence_count) |->
                ClampAtOne(TorchPow(coocurrence_count[k], m.x_max, m.alpha))]
        single_losses ==
            [k \in 1..Len(coocurrence_count) |->
                SingleLoss(weight_factor[k], DistanceExpr(TorchLog(coocurrence_count[k])))]
    IN  [raised |-> "none", weight_factor |-> weight_factor,
         total_loss |-> TotalLoss(single_losses)]

(***************************************************************************)
(* Inputs.                                                                 *)
(***************************************************************************)
\* The sequences over S of length at most n
RECURSIVE SeqsUpTo(_, _)
SeqsUpTo(S, n) ==
    IF n = 0 THEN {<<>>}
    ELSE LET shorter == SeqsUpTo(S, n - 1)
         IN  shorter \cup {Append(s, x) : s \in {t \in shorter : Len(t) = n - 1}, x \in S}

RECURSIVE TotalLen(_)
TotalLen(corpus) == IF corpus = <<>> THEN 0 ELSE Len(Head(corpus)) + TotalLen(Tail(corpus))

\* The corpora over S of at most maxRegions regions and maxTokens tokens in all
RECURSIVE CorporaOf(_, _, _)
CorporaOf(S, maxTokens, maxRegions) ==
    IF maxRegions = 0 THEN {<<>>}
    ELSE {<<>>} \cup
         UNION {{<<region>> \o rest :
                    rest \in CorporaOf(S, maxTokens - Len(region), maxRegions - 1)} :
                  region \in SeqsUpTo(S, maxTokens)}

WindowSizes == 0..MaxWindow

FitWindowSizes == {0, 1, 2}
ContextSizes ==
    {IntArg(n) : n \in FitWindowSizes}
    \cup {TupleArg(<<l, r>>) : l \in FitWindowSizes, r \in FitWindowSizes}
    \cup {TupleArg(<<1>>), TupleArg(<<1, 1, 1>>)}
    \cup {OtherArg("NoneType"), OtherArg("str"), OtherArg("list"), OtherArg("float")}
VocabSizes == {0, 1, 2}
MinOccurrances == {1, 2}
FitCorpora == CorporaOf(Tokens, MaxFitTokens, MaxRegions)

(***************************************************************************)
(* The life of a GloVe object: construction and calls of fit.              *)
(***************************************************************************)
NoCall == [op |-> "none"]

\* GloVe(embedding_size, context_size, vocab_size, min_occurrances, x_max, alpha)
Construct(context_size, vocab_size, min_occurrances, x_max, alpha) ==
    LET res == NewGloVe(context_size, vocab_size, min_occurrances, x_max, alpha)
    IN  /\ model = <<>>
        /\ model' = IF res[1] = "ok" THEN <<res[2]>> ELSE <<>>
        /\ call' = [op |-> "init", context_size |-> context_size,
                    raised |-> IF res[1] = "ok" THEN "none" ELSE res[1]]

\* The record of a call of fit that iterated over regions; exhausted: the
\* corpus was a single-use iterator that an earlier pass had consumed
FitCall(res, regions, exhausted) ==
    [op |-> "fit", corpus |-> regions, exhausted |-> exhausted,
     raised |-> res.raised,
     word_counts |-> res.scan.word_counts,
     cooccurence_counts |-> res.scan.cooccurence_counts]

\* model.fit(corpus), corpus a list of regions or a fresh iterator over them
Fit(corpus) ==
    /\ model # <<>>
    /\ LET res == FitResult(model[1], corpus)
       IN  /\ model' = <<res.after>>
           /\ call' = FitCall(res, corpus, FALSE)

\* model.fit(corpus), corpus a single-use iterator that was consumed before:
\* "for region in corpus" finds no region
FitExhausted ==
    /\ model # <<>>
    /\ LET res == FitResult(model[1], <<>>)
       IN  /\ model' = <<res.after>>
           /\ call' = FitCall(res, <<>>, TRUE)

Init == /\ model = <<>>
        /\ call = NoCall

Next ==
    \/ \E context_size \in ContextSizes, vocab_size \in VocabSizes,
          min_occurrances \in MinOccurrances :
            Construct(context_size, vocab_size, min_occurrances, XMaxDefault, AlphaDefault)
    \/ \E corpus \in FitCorpora : Fit(corpus)
    \/ FitExhausted

Spec == Init /\ [][Next]_vars

(***************************************************************************)
(* _context_windows on its own: a call on a region and two window sizes.   *)
(***************************************************************************)
WindowRegions == SeqsUpTo(Tokens, MaxLen)

InitWindows ==
    /\ model = <<>>
    /\ call \in {[op |-> "_context_windows", done |-> FALSE, region |-> region,
                  left_size |-> left_size, right_size |-> right_size, yielded |-> <<>>] :
                    region \in WindowRegions, left_size \in WindowSizes,
                    right_size \in WindowSizes}

\* list(_context_windows(region, left_size, right_size))
ContextWindows ==
    /\ call.op = "_context_windows"
    /\ ~call.done
    /\ call' = [call EXCEPT !.done = TRUE,
                            !.yielded = _context_windows(call.region, call.left_size,
                                                          call.right_size)]
    /\ UNCHANGED model

NextWindows == ContextWindows

SpecWindows == InitWindows /\ [][NextWindows]_vars

(***************************************************************************)
(* The corpus scan on its own: lines 48-57 on a corpus and two window      *)
(* sizes (fit passes self.left_context and self.right_context).            *)
(***************************************************************************)
ScanCorpora == CorporaOf(ScanTokens, MaxScanTokens, MaxRegions)

InitScan ==
    /\ model = <<>>
    /\ call \in {[op |-> "scan", done |-> FALSE, corpus |-> corpus,
                  left_size |-> left_size, right_size |-> right_size,
                  word_counts |-> <<>>, cooccurence_counts |-> <<>>] :
                    corpus \in ScanCorpora, left_size \in WindowSizes,
                    right_size \in WindowSizes}

Scan ==
    /\ call.op = "scan"
    /\ ~call.done
    /\ LET scan == ScanCorpus(call.corpus, call.left_size, call.right_size)
       IN  call' = [call EXCEPT !.done = TRUE,
                                !.word_counts = scan.word_counts,
                                !.cooccurence_counts = scan.cooccurence_counts]
    /\ UNCHANGED model

NextScan == Scan

SpecScan == InitScan /\ [][NextScan]_vars

(***************************************************************************)
(* The scan of a corpus of two regions and the scans of its two parts, the *)
(* corpus of the first region and the corpus of the second.                *)
(***************************************************************************)
MergeWindowSizes == 0..MaxMergeWindow
MergeRegions == SeqsUpTo(Tokens, MaxMergeTokens)

InitMerge ==
    /\ model = <<>>
    /\ \E first \in MergeRegions, second \in MergeRegions,
          left_size \in MergeWindowSizes, right_size \in MergeWindowSizes :
            /\ Len(first) + Len(second) <= MaxMergeTokens
            /\ call = [op |-> "scans", done |-> FALSE,
                       first |-> <<first>>, second |-> <<second>>,
                       left_size |-> left_size, right_size |-> right_size,
                       whole |-> <<>>, swapped |-> <<>>, of_first |-> <<>>, of_second |-> <<>>]

\* The co-occurrence counts of first + second, of second + first, of first and
\* of second
Scans ==
    /\ call.op = "scans"
    /\ ~call.done
    /\ LET counts(corpus) ==
               ScanCorpus(corpus, call.left_size, call.right_size).cooccurence_counts
       IN  call' = [call EXCEPT !.done = TRUE,
                                !.whole = counts(call.first \o call.second),
                                !.swapped = counts(call.second \o call.first),
                                !.of_first = counts(call.first),
                                !.of_second = counts(call.second)]
    /\ UNCHANGED model

NextMerge == Scans

SpecMerge == InitMerge /\ [][NextMerge]_vars

(***************************************************************************)
(* The vocabulary on its own: lines 63-65 on a Counter.                    *)
(***************************************************************************)
\* The Counters over VocabTokens: distinct words in any insertion order, each
\* with a count of 1..MaxCount
Counters ==
    LET orders == {s \in SeqsUpTo(VocabTokens, Cardinality(VocabTokens)) :
                     \A i, j \in 1..Len(s) : i # j => s[i] # s[j]}
    IN  UNION {{[k \in 1..Len(s) |-> <<s[k], c[k]>>] : c \in [1..Len(s) -> 1..MaxCount]} :
                 s \in orders}
BuilderVocabSizes == {0, 1, 2, 3}
BuilderMinOccurrances == {1, 2, 4}

InitVocabulary ==
    /\ model = <<>>
    /\ call \in {[op |-> "vocabulary", done |-> FALSE, word_counts |-> word_counts,
                  vocab_size |-> vocab_size, min_occurrances |-> min_occurrances,
                  words |-> <<>>, word_to_id |-> <<>>] :
                    word_counts \in Counters, vocab_size \in BuilderVocabSizes,
                    min_occurrances \in BuilderMinOccurrances}

BuildVocabulary ==
    /\ call.op = "vocabulary"
    /\ ~call.done
    /\ LET words == Words(call.word_counts, call.vocab_size, call.min_occurrances)
       IN  call' = [call EXCEPT !.done = TRUE, !.words = words,
                                !.word_to_id = WordToId(words)]
    /\ UNCHANGED model

NextVocabulary == BuildVocabulary

SpecVocabulary == InitVocabulary /\ [][NextVocabulary]_vars

(***************************************************************************)
(* Loss evaluation: construction with x_max and alpha, and calls of        *)
(* forward.                                                                *)
(***************************************************************************)
XMaxes == {2, XMaxDefault}
Alphas == {<<-1, 1>>, <<-1, 2>>, <<0, 1>>, AlphaDefault, <<1, 1>>, <<2, 1>>}

\* The counts of a batch: an invalid count, or a multiple of an x_max
CountValues == {-1, 0} \cup XMaxes \cup {10 * x_max : x_max \in XMaxes}

NonEmptySeqsUpTo(S, n) == SeqsUpTo(S, n) \ {<<>>}

LossBatches == NonEmptySeqsUpTo(CountValues, MaxBatch)

Forward(coocurrence_count) ==
    /\ model # <<>>
    /\ LET res == ForwardResult(model[1], coocurrence_count)
       IN  call' = [op |-> "forward", coocurrence_count |-> coocurrence_count,
                    raised |-> res.raised, weight_factor |-> res.weight_factor,
                    total_loss |-> res.total_loss]
    /\ UNCHANGED model

NextLoss ==
    \/ \E x_max \in XMaxes, alpha \in Alphas : Construct(IntArg(1), 2, 1, x_max, alpha)
    \/ \E coocurrence_count \in LossBatches : Forward(coocurrence_count)

SpecLoss == Init /\ [][NextLoss]_vars

(***************************************************************************)
(* Properties of construction and fit.                                     *)
(***************************************************************************)
\* What the object retains of a fit
Retained(m) == <<m.words, m.word_to_id, m.coocurrence_matrix>>

\* Some position of some region of corpus has a context token within the
\* windows: positions i # j of one region with i - left <= j <= i + right
PairObserved(corpus, left, right) ==
    \E r \in 1..Len(corpus) : \E i, j \in 1..Len(corpus[r]) :
        i # j /\ i - left <= j /\ j <= i + right

\* The matrix that section 4.4 asks for: the entries of counts whose two words
\* are in the vocabulary, re-keyed by the ids of the words
ExpectedMatrix(counts, ids) ==
    LET kept == {words \in DOMAIN counts : words[1] \in DOMAIN ids /\ words[2] \in DOMAIN ids}
    IN  [id \in {<<ids[words[1]], ids[words[2]]>> : words \in kept} |->
            counts[CHOOSE words \in kept : <<ids[words[1]], ids[words[2]]>> = id]]

\* C1: when fit has accumulated co-occurrence entries, it completes, and the
\* matrix holds exactly the entries whose two words are in the vocabulary, each
\* under the ids of its words with its accumulated weight; the other entries
\* are dropped without an error.
C1_MatrixFromRawCooccurrence ==
    (call.op = "fit" /\ DOMAIN call.cooccurence_counts # {}) =>
        /\ call.raised = "none"
        /\ model[1].coocurrence_matrix =
              <<ExpectedMatrix(call.cooccurence_counts,
                               WordToId(Words(call.word_counts, model[1].vocab_size,
                                              model[1].min_occurrances)))>>

\* C2: construction accepts an int n (left = right = n) and a pair (L, R)
\* (left = L, right = R); every other shape of context_size fails and builds
\* no object.
C2_ContextSizeShapes ==
    call.op = "init" =>
        LET cs == call.context_size
        IN  IF cs.type = "int"
            THEN /\ call.raised = "none"
                 /\ model # <<>>
                 /\ model[1].left_context = cs.value[1]
                 /\ model[1].right_context = cs.value[1]
            ELSE IF cs.type = "tuple" /\ Len(cs.value) = 2
            THEN /\ call.raised = "none"
                 /\ model # <<>>
                 /\ model[1].left_context = cs.value[1]
                 /\ model[1].right_context = cs.value[2]
            ELSE call.raised = "ValueError" /\ model = <<>>

\* C4: fit raises ValueError (the EmptyCorpusStatistics failure) exactly when
\* no pair was observed in the whole corpus: in particular for a corpus with no
\* region, for an exhausted single-use corpus and for a corpus whose regions
\* all have at most one token; and not when some pair was observed.
C4_EmptyCorpusStatistics ==
    call.op = "fit" =>
        /\ (call.raised = "ValueError") <=>
              ~PairObserved(call.corpus, model[1].left_context, model[1].right_context)
        /\ (call.raised = "ValueError") <=> (DOMAIN call.cooccurence_counts = {})
        /\ call.corpus = <<>> => call.raised = "ValueError"
        /\ call.exhausted => call.raised = "ValueError"
        /\ (\A r \in 1..Len(call.corpus) : Len(call.corpus[r]) <= 1) => call.raised = "ValueError"

\* fit raised ValueError on a corpus of two regions of one token each
C4_Witness ==
    /\ call.op = "fit"
    /\ call.raised = "ValueError"
    /\ Len(call.corpus) = 2
    /\ \A r \in 1..Len(call.corpus) : Len(call.corpus[r]) = 1

\* C10: a call of fit that returns leaves the vocabulary and the matrix of its
\* own corpus, and a call of fit that fails leaves the word list, word_to_id
\* and the matrix as they were before the call.
C10_FitAllOrNothing ==
    [][call'.op = "fit" =>
         IF call'.raised = "none"
         THEN LET words == Words(call'.word_counts, model[1].vocab_size,
                                 model[1].min_occurrances)
              IN  Retained(model'[1]) =
                     <<<<words>>, <<WordToId(words)>>,
                       <<ExpectedMatrix(call'.cooccurence_counts, WordToId(words))>>>>
         ELSE Retained(model'[1]) = Retained(model[1])]_vars

PositionTerms(region, i, left, right) ==
    LET nLeft  == Min(left, i - 1)
        nRight == Min(right, Len(region) - i)
    IN  [d \in 1..nLeft |-> <<region[i], region[i - d], d>>]
        \o [d \in 1..nRight |-> <<region[i], region[i + d], d>>]

RECURSIVE RegionTerms(_, _, _, _)
RegionTerms(region, i, left, right) ==
    IF i > Len(region) THEN <<>>
    ELSE PositionTerms(region, i, left, right) \o RegionTerms(region, i + 1, left, right)

RECURSIVE CorpusTerms(_, _, _)
CorpusTerms(corpus, left, right) ==
    IF corpus = <<>> THEN <<>>
    ELSE RegionTerms(Head(corpus), 1, left, right) \o CorpusTerms(Tail(corpus), left, right)

\* The sum of 1 / distance over the terms of one (focal, context) pair
RECURSIVE SumFor(_, _, _)
SumFor(pair, terms, sum) ==
    IF terms = <<>> THEN sum
    ELSE LET t == Head(terms)
         IN  SumFor(pair, Tail(terms),
                    IF <<t[1], t[2]>> = pair THEN FloatAdd(sum, Divide1By(t[3])) ELSE sum)

ExpectedCounts(corpus, left, right) ==
    LET terms == CorpusTerms(corpus, left, right)
    IN  [pair \in {<<terms[k][1], terms[k][2]>> : k \in 1..Len(terms)} |->
            SumFor(pair, terms, FloatZero)]

\* The floats 1.0 and 0.5
FloatOne == [e |-> -52, hi |-> 2^25, lo |-> 0]
FloatHalf == [e |-> -53, hi |-> 2^25, lo |-> 0]

\* C6: after the scan, the count of (f, c) is the sum of 1 / |i - j| over the
\* positions i # j of every region with region[i] = f, region[j] = c and
\* i - L <= j <= i + R, and there is no other entry; (a, b) and (b, a) are
\* separate entries.  [x, y, z] with left 0, right 2 gives (x, y) = 1,
\* (x, z) = 1/2 and no entry with focal z.
C6_DistanceWeightedCounts ==
    (call.op = "scan" /\ call.done) =>
        /\ call.cooccurence_counts = ExpectedCounts(call.corpus, call.left_size, call.right_size)
        /\ (call.corpus = << <<"x", "y", "z">> >> /\ call.left_size = 0 /\ call.right_size = 2) =>
              /\ DOMAIN call.cooccurence_counts = {<<"x", "y">>, <<"x", "z">>, <<"y", "z">>}
              /\ call.cooccurence_counts[<<"x", "y">>] = FloatOne
              /\ call.cooccurence_counts[<<"x", "z">>] = FloatHalf

\* Two regions that both add to (x, y), once from the left context at distance 2
C6_Witness ==
    /\ call.op = "scan"
    /\ call.done
    /\ call.corpus = << <<"x", "y", "x">>, <<"y">> >>
    /\ call.left_size = 2
    /\ call.right_size = 0
    /\ DOMAIN call.cooccurence_counts = {<<"y", "x">>, <<"x", "y">>, <<"x", "x">>}
    /\ call.cooccurence_counts[<<"y", "x">>] = FloatOne
    /\ call.cooccurence_counts[<<"x", "y">>] = FloatOne
    /\ call.cooccurence_counts[<<"x", "x">>] = FloatHalf

\* The sum of two maps of counts, key by key
MergeCounts(a, b) ==
    [key \in DOMAIN a \cup DOMAIN b |->
        IF key \notin DOMAIN b THEN a[key]
        ELSE IF key \notin DOMAIN a THEN b[key]
        ELSE FloatAdd(a[key], b[key])]

\* The original C9: the counts of a corpus are the key-by-key sum of the counts
\* of its two parts, and the counts of the corpus with its parts in the other
\* order.
C9_OrderIndependent ==
    (call.op = "scans" /\ call.done) =>
        /\ MergeCounts(call.of_first, call.of_second) = call.whole
        /\ call.swapped = call.whole

\* C9, amended: the counts of a corpus, of the corpus with its parts in the
\* other order, and the key-by-key sum of the counts of its two parts have the
\* same keys; for window sizes of at most 2 (the weights 1 and 1/2 and their
\* sums are exact in binary floating point) they are the same map.
C9_OrderIndependentExactWeights ==
    (call.op = "scans" /\ call.done) =>
        /\ DOMAIN call.whole = DOMAIN call.of_first \cup DOMAIN call.of_second
        /\ DOMAIN call.swapped = DOMAIN call.whole
        /\ (call.left_size <= 2 /\ call.right_size <= 2) =>
              /\ MergeCounts(call.of_first, call.of_second) = call.whole
              /\ call.swapped = call.whole

\* Two parts that both add to the same pairs, with windows of 2
C9_Witness ==
    /\ call.op = "scans"
    /\ call.done
    /\ call.left_size = 2
    /\ call.right_size = 2
    /\ call.first = << <<"a", "b", "a">> >>
    /\ call.second = << <<"a", "a">> >>
    /\ call.whole[<<"a", "a">>] = FloatAdd(FloatAdd(FloatHalf, FloatHalf), FloatAdd(FloatOne, FloatOne))
    /\ DOMAIN call.of_first \cap DOMAIN call.of_second # {}
    /\ DOMAIN call.of_first # DOMAIN call.of_second

(***************************************************************************)
(* Properties of the vocabulary.                                           *)
(***************************************************************************)
\* C7: the vocabulary is the vocab_size most frequent tokens, most frequent
\* first and equal frequencies in first-encounter order, without those of a
\* frequency below min_occurrances; it has no duplicates and at most
\* vocab_size entries, and word_to_id maps it one-to-one onto 0 .. n-1 in
\* that order.  {a: 5, b: 3, c: 1} with vocab_size 2 gives [a, b], and with
\* min_occurrances 4 gives [a].
C7_Vocabulary ==
    (call.op = "vocabulary" /\ call.done) =>
        LET wc          == call.word_counts
            words       == call.words
            at(w)       == CHOOSE k \in 1..Len(wc) : wc[k][1] = w
            all         == {wc[k][1] : k \in 1..Len(wc)}
            beats(u, w) == \/ wc[at(u)][2] > wc[at(w)][2]
                           \/ wc[at(u)][2] = wc[at(w)][2] /\ at(u) < at(w)
            top         == {w \in all :
                              Cardinality({u \in all : beats(u, w)}) < call.vocab_size}
            expected    == {w \in top : wc[at(w)][2] >= call.min_occurrances}
        IN  /\ {words[k] : k \in 1..Len(words)} = expected
            /\ Len(words) = Cardinality(expected)
            /\ Len(words) <= call.vocab_size
            /\ \A i, j \in 1..Len(words) : i < j => beats(words[i], words[j])
            /\ DOMAIN call.word_to_id = expected
            /\ \A k \in 1..Len(words) : call.word_to_id[words[k]] = k - 1
            /\ ({wc[k] : k \in 1..Len(wc)} = {<<"a", 5>>, <<"b", 3>>, <<"c", 1>>}
                  /\ call.vocab_size = 2) =>
                  /\ call.min_occurrances = 1 => words = <<"a", "b">>
                  /\ call.min_occurrances = 4 => words = <<"a">>

\* {a: 5, b: 3, c: 1}, c met first, cut to two words and then to those that
\* occur four times
C7_Witness ==
    /\ call.op = "vocabulary"
    /\ call.done
    /\ call.word_counts = << <<"c", 1>>, <<"a", 5>>, <<"b", 3>> >>
    /\ call.vocab_size = 2
    /\ call.min_occurrances = 4
    /\ call.words = <<"a">>

(***************************************************************************)
(* Properties of forward.                                                  *)
(***************************************************************************)
\* C3: forward on a batch that holds a count <= 0 fails (InvalidCount): it
\* returns no value.
C3_RejectsNonPositiveCount ==
    (call.op = "forward"
        /\ \E k \in 1..Len(call.coocurrence_count) : call.coocurrence_count[k] <= 0) =>
        call.raised # "none"

IsOne(w) == w.kind = "num" /\ w.sign = 1 /\ w.num = w.den

\* The original C8: the weight factor of a count of 10 * x_max is 1, whatever
\* alpha is.
C8_ClampedForAnyAlpha ==
    call.op = "forward" =>
        \A k \in 1..Len(call.coocurrence_count) :
            call.coocurrence_count[k] = 10 * model[1].x_max => IsOne(call.weight_factor[k])

\* C8, amended: the weight factor of a count of 10 * x_max is 1 for every
\* alpha >= 0.
C8_ClampedForNonNegativeAlpha ==
    (call.op = "forward" /\ model[1].alpha[1] >= 0) =>
        \A k \in 1..Len(call.coocurrence_count) :
            call.coocurrence_count[k] = 10 * model[1].x_max => IsOne(call.weight_factor[k])

\* The default alpha = 3/4 and x_max = 100: a count of 1000, whose power
\* 10 ^ (3/4) is above 1, has the weight factor 1
C8_Witness ==
    /\ call.op = "forward"
    /\ model[1].alpha = AlphaDefault
    /\ model[1].x_max = XMaxDefault
    /\ call.coocurrence_count = <<1000>>
    /\ GreaterThanOne(TorchPow(1000, XMaxDefault, AlphaDefault))
    /\ call.weight_factor = <<OneValue>>

====
